---- MODULE Spec2Model ----
(***************************************************************************)
(* Model of the ggql request builder (src/ggql.go).                        *)
(*                                                                         *)
(* Three specifications share the operators below.                         *)
(*   Spec        one fluent chain  r = NewRequest(e); r = r.Op(...); ...   *)
(*               r.Do(), with the outcome of every Do recorded.            *)
(*   SpecCalls   the same chain without Do, with the last call and the     *)
(*               name of the call before it recorded.                      *)
(*   SpecShared  several Request values held by the caller at once, with   *)
(*               the Go maps they point to kept in a heap, so that two     *)
(*               values holding the same map reference see each other's    *)
(*               writes.                                                   *)
(***************************************************************************)
EXTENDS Integers, Sequences, FiniteSets, TLC

VARIABLES
    request,        \* the Request value at the end of the fluent chain
    done,           \* Spec: what the last call did, when it was a Do
    last,           \* SpecCalls: the last call made on the chain
    prevOp,         \* SpecCalls: the name of the call before `last`
    builders,       \* SpecShared: the Request values the caller holds
    headerMaps,     \* SpecShared: heap of map[string]string objects
    variableMaps,   \* SpecShared: heap of map[string]any objects
    parent,         \* SpecShared: parent[i] = value builders[i] was derived from (0: NewRequest)
    family          \* SpecShared: family[i] = the NewRequest value builders[i] descends from

vars == <<request, done, last, prevOp, builders, headerMaps, variableMaps, parent, family>>

sharedVars == <<builders, headerMaps, variableMaps, parent, family>>

-----------------------------------------------------------------------------
(* Bounds and input domains *)

MaxBuilders == 4

Endpoints == {"https://example.test/graphql", "://malformed"}

Queries == {"", "{ hello }", "mutation { bye }"}

HeaderKeys == {"Content-Type", "content-type", "X-Trace"}

HeaderValues == {"text/plain", "application/xml"}

VariableKeys == {"id", "name"}

\* Go values of type any: an int, and a channel (which encoding/json rejects)
GoInt == [type |-> "int", val |-> "42"]

GoChan == [type |-> "chan", val |-> ""]

VariableValues == {GoInt, GoChan}

MapsOver(keys, values) == UNION {[S -> values] : S \in SUBSET keys}

HeaderMapArgs == MapsOver(HeaderKeys, HeaderValues)

VariableMapArgs == MapsOver(VariableKeys, VariableValues)

\* the orders in which `for k, v := range m` may visit the keys of a Go map
RangeOrders(S) == {o \in [1..Cardinality(S) -> S] : \A k \in S : \E i \in DOMAIN o : o[i] = k}

\* variadic keys ...string: every slice of distinct keys, in every order
KeyLists(keys) == UNION {RangeOrders(S) : S \in SUBSET keys}

EmptyMap == << >>

-----------------------------------------------------------------------------
(* Go map primitives *)

\* m[key] = value
MapSet(m, key, value) == [k \in DOMAIN m \cup {key} |-> IF k = key THEN value ELSE m[k]]

\* delete(m, key)
MapDelete(m, key) == [k \in DOMAIN m \ {key} |-> m[k]]

-----------------------------------------------------------------------------
(* The effect of each configuration call on the map it writes to *)

AddHeaderMap(m, key, value) == MapSet(m, key, value)

RECURSIVE AddHeadersLoop(_, _, _, _)
AddHeadersLoop(m, headers, order, i) ==
    IF i > Len(order) THEN m
    ELSE AddHeadersLoop(MapSet(m, order[i], headers[order[i]]), headers, order, i + 1)

\* a merge that keeps the value already present
AddHeadersKeepExisting(m, headers, order) ==
    [k \in DOMAIN m \cup DOMAIN headers |-> IF k \in DOMAIN m THEN m[k] ELSE headers[k]]

\* AddHeaders: range over the argument in the order `order`, writing each pair
AddHeadersMap(m, headers, order) == AddHeadersLoop(m, headers, order, 1)

RECURSIVE RemoveLoop(_, _, _)
RemoveLoop(m, keys, i) ==
    IF i > Len(keys) THEN m ELSE RemoveLoop(MapDelete(m, keys[i]), keys, i + 1)

RemoveHeadersMap(m, keys) == RemoveLoop(m, keys, 1)

\* a clear that leaves the map as it is
ClearHeadersKeep(m) == m

ClearHeadersMap(m) == EmptyMap

AddVariableMap(m, key, value) == MapSet(m, key, value)

RECURSIVE AddVariablesLoop(_, _, _, _)
AddVariablesLoop(m, variables, order, i) ==
    IF i > Len(order) THEN m
    ELSE AddVariablesLoop(MapSet(m, order[i], variables[order[i]]), variables, order, i + 1)

AddVariablesMap(m, variables, order) == AddVariablesLoop(m, variables, order, 1)

RemoveVariablesMap(m, keys) == RemoveLoop(m, keys, 1)

ClearVariablesMap(m) == EmptyMap

-----------------------------------------------------------------------------
(* Request values of the fluent chain: the maps are held by value here,    *)
(* because a chain keeps only its newest Request and nothing else points   *)
(* to its maps.                                                            *)

\* the nil map of a Request that was not built by NewRequest
NilMap == [nil |-> TRUE]

NewRequest(endpoint) ==
    [Endpoint |-> endpoint, Request |-> "", Headers |-> EmptyMap, Variables |-> EmptyMap]

-----------------------------------------------------------------------------
(* Do, stage by stage *)

ErrNoQuery == "no query/mutation provided"

ErrEncoding == "encoding request"

ErrCreating == "creating request"

ErrSending == "sending request"

ErrReading == "reading response"

\* mo.Errf / mo.Ok: a Result is an error or a value
NoValue == [raw |-> "", valid |-> FALSE]

MoErr(msg) == [isErr |-> TRUE, err |-> msg, value |-> NoValue]

MoOk(v) == [isErr |-> FALSE, err |-> "", value |-> v]

\* a guard that tests the wrong field
QueryMissingByEndpoint(req) == req.Endpoint = ""

\* if request.Request == ""
QueryMissing(req) == req.Request = ""

\* c := content{Query: request.Request, Variables: request.Variables}
content(req) == [Query |-> req.Request, Variables |-> req.Variables]

\* encoding/json: what a Go value of type any encodes to
Encodable(v) == v.type # "chan"

EncodeValue(v) == [json |-> "number", text |-> v.val]

\* a map encodes as an object, a nil map as null
EncodeVariables(m) ==
    IF m = NilMap THEN [json |-> "null", members |-> EmptyMap]
    ELSE [json |-> "object", members |-> [k \in DOMAIN m |-> EncodeValue(m[k])]]

\* an encoder error that is dropped
EncodeErrorIgnored(c) == FALSE

\* err := json.NewEncoder(&reqBuf).Encode(c); err != nil
EncodeFails(c) ==
    /\ c.Variables # NilMap
    /\ \E k \in DOMAIN c.Variables : ~Encodable(c.Variables[k])

\* a variables field tagged omitempty
EncodeContentOmitEmpty(c) ==
    IF c.Variables = EmptyMap
    THEN ("query" :> [json |-> "string", text |-> c.Query])
    ELSE ("query" :> [json |-> "string", text |-> c.Query])
            @@ ("variables" :> EncodeVariables(c.Variables))

\* the encoded payload: one member per exported field of content, named by its json tag
EncodeContent(c) ==
    ("query" :> [json |-> "string", text |-> c.Query])
        @@ ("variables" :> EncodeVariables(c.Variables))

\* http.NewRequest fails when the endpoint does not parse as a URL
NewRequestFails(endpoint) == endpoint = "://malformed"

\* http.Header.Set stores under textproto.CanonicalMIMEHeaderKey(key)
CanonicalKey(key) == IF key = "content-type" THEN "Content-Type" ELSE key

HeaderSet(h, key, value) == MapSet(h, CanonicalKey(key), value)

RECURSIVE SetHeadersLoop(_, _, _, _)
SetHeadersLoop(h, headers, order, i) ==
    IF i > Len(order) THEN h
    ELSE SetHeadersLoop(HeaderSet(h, order[i], headers[order[i]]), headers, order, i + 1)

\* req.Header.Set("Content-Type", "application/json"), then every configured
\* header in the order the range statement visits them
SetHeaders(headers, order) ==
    SetHeadersLoop(HeaderSet(EmptyMap, "Content-Type", "application/json"), headers, order, 1)

\* what http.DefaultClient.Do can answer
SendOutcomes == {"response", "failed", "redirectFailed"}

StatusCodes == {200, 500}

ResponseBody == "{\"data\":{\"hello\":\"world\"}}"

\* the transport's answer to one request: a failure, or a response with a
\* status code and a body that can or cannot be read to its end
Environments ==
    [send : {"failed", "redirectFailed"}, readOK : {FALSE}, status : {0}, bytes : {""}]
        \cup [send : {"response"}, readOK : BOOLEAN, status : StatusCodes, bytes : {ResponseBody}]

\* gjson.ParseBytes(resBuf.Bytes())
ParseBytes(bytes) == [raw |-> bytes, valid |-> TRUE]

\* a Close that is called after the read instead of deferred
BodyClosedAfterRead(env) ==
    CASE env.send = "failed" -> "none"
      [] env.send = "redirectFailed" -> "closed"
      [] env.readOK -> "closed"
      [] OTHER -> "open"

\* state of the response body when Do returns: the client hands back no body
\* on a failure (or, after a failed redirect, one it has closed already);
\* a body that was handed over is closed by the deferred Body.Close()
BodyAtReturn(env) ==
    CASE env.send = "failed" -> "none"
      [] env.send = "redirectFailed" -> "closed"
      [] OTHER -> "closed"

Outcome(stages, sent, res, body, env) ==
    [stages |-> stages, sent |-> sent, res |-> res, body |-> body, env |-> env]

DoRun(req, order, env) ==
    IF QueryMissing(req)
    THEN Outcome(<<"check">>, << >>, MoErr(ErrNoQuery), "none", env)
    ELSE IF EncodeFails(content(req))
    THEN Outcome(<<"check", "encode">>, << >>, MoErr(ErrEncoding), "none", env)
    ELSE IF NewRequestFails(req.Endpoint)
    THEN Outcome(<<"check", "encode", "create">>, << >>, MoErr(ErrCreating), "none", env)
    ELSE LET req2 == [method |-> "POST",
                      url |-> req.Endpoint,
                      header |-> SetHeaders(req.Headers, order),
                      body |-> EncodeContent(content(req))]
         IN  IF env.send # "response"
             THEN Outcome(<<"check", "encode", "create", "send">>, <<req2>>,
                          MoErr(ErrSending), BodyAtReturn(env), env)
             ELSE IF ~env.readOK
             THEN Outcome(<<"check", "encode", "create", "send", "read">>, <<req2>>,
                          MoErr(ErrReading), BodyAtReturn(env), env)
             ELSE Outcome(<<"check", "encode", "create", "send", "read", "parse">>, <<req2>>,
                          MoOk(ParseBytes(env.bytes)), BodyAtReturn(env), env)

-----------------------------------------------------------------------------
(* The fluent chain: one Request value, replaced by the result of each call *)

NoDo == [stages |-> << >>]

Settle(req) ==
    /\ request' = req
    /\ done' = NoDo
    /\ UNCHANGED sharedVars

AddHeader(key, value) ==
    /\ request.Headers # NilMap
    /\ Settle([request EXCEPT !.Headers = AddHeaderMap(@, key, value)])

AddHeaders(headers) ==
    /\ request.Headers # NilMap \/ headers = EmptyMap
    /\ \E m \in {AddHeadersMap(request.Headers, headers, order) :
                    order \in RangeOrders(DOMAIN headers)} :
            Settle([request EXCEPT !.Headers = m])

RemoveHeaders(keys) == Settle([request EXCEPT !.Headers = RemoveHeadersMap(@, keys)])

ClearHeaders == Settle([request EXCEPT !.Headers = ClearHeadersMap(@)])

AddVariable(key, value) ==
    /\ request.Variables # NilMap
    /\ Settle([request EXCEPT !.Variables = AddVariableMap(@, key, value)])

AddVariables(variables) ==
    /\ request.Variables # NilMap \/ variables = EmptyMap
    /\ \E m \in {AddVariablesMap(request.Variables, variables, order) :
                    order \in RangeOrders(DOMAIN variables)} :
            Settle([request EXCEPT !.Variables = m])

RemoveVariables(keys) == Settle([request EXCEPT !.Variables = RemoveVariablesMap(@, keys)])

ClearVariables == Settle([request EXCEPT !.Variables = ClearVariablesMap(@)])

Query(query) == Settle([request EXCEPT !.Request = query])

\* Do reads the Request and writes nothing to it; `done` keeps what it did
Do(env) ==
    /\ \E outcome \in {DoRun(request, order, env) :
                          order \in RangeOrders(DOMAIN request.Headers)} :
            done' = outcome
    /\ UNCHANGED <<request, sharedVars>>

\* bookkeeping of the calls made on the chain: the last call with its
\* arguments and the maps it found, and the name of the call before it
Call(op, arg) ==
    [op |-> op, arg |-> arg, beforeH |-> request.Headers, beforeV |-> request.Variables]

\* the calls a two-call property starts with
Watched == {"ClearHeaders", "ClearVariables", "AddHeaders", "AddVariables"}

Record(op, arg) ==
    /\ last' = Call(op, arg)
    /\ prevOp' = IF last.op \in Watched THEN last.op ELSE "other"

Forget == UNCHANGED <<last, prevOp>>

InitChain(endpoints) ==
    /\ \E endpoint \in endpoints : request = NewRequest(endpoint)
    /\ done = NoDo
    /\ last = [op |-> "NewRequest", arg |-> << >>, beforeH |-> EmptyMap, beforeV |-> EmptyMap]
    /\ prevOp = "other"
    /\ builders = << >>
    /\ headerMaps = << >>
    /\ variableMaps = << >>
    /\ parent = << >>
    /\ family = << >>

(* Spec: configuration calls and Do on the chain *)

Init == InitChain(Endpoints)

Next ==
    \/ \E key \in HeaderKeys, value \in HeaderValues : AddHeader(key, value) /\ Forget
    \/ \E headers \in HeaderMapArgs : AddHeaders(headers) /\ Forget
    \/ \E keys \in KeyLists(HeaderKeys) : RemoveHeaders(keys) /\ Forget
    \/ ClearHeaders /\ Forget
    \/ \E key \in VariableKeys, value \in VariableValues : AddVariable(key, value) /\ Forget
    \/ \E variables \in VariableMapArgs : AddVariables(variables) /\ Forget
    \/ \E keys \in KeyLists(VariableKeys) : RemoveVariables(keys) /\ Forget
    \/ ClearVariables /\ Forget
    \/ \E query \in Queries : Query(query) /\ Forget
    \/ \E env \in Environments : Do(env) /\ Forget

Spec == Init /\ [][Next]_vars

(* SpecCalls: the configuration calls alone, each call recorded *)

InitCalls == InitChain({"https://example.test/graphql"})

NextCalls ==
    \/ \E key \in HeaderKeys, value \in HeaderValues :
            AddHeader(key, value) /\ Record("AddHeader", <<key, value>>)
    \/ \E headers \in HeaderMapArgs : AddHeaders(headers) /\ Record("AddHeaders", headers)
    \/ \E keys \in KeyLists(HeaderKeys) : RemoveHeaders(keys) /\ Record("RemoveHeaders", << >>)
    \/ ClearHeaders /\ Record("ClearHeaders", << >>)
    \/ \E key \in VariableKeys, value \in VariableValues :
            AddVariable(key, value) /\ Record("AddVariable", <<key, value>>)
    \/ \E variables \in VariableMapArgs :
            AddVariables(variables) /\ Record("AddVariables", variables)
    \/ \E keys \in KeyLists(VariableKeys) :
            RemoveVariables(keys) /\ Record("RemoveVariables", << >>)
    \/ ClearVariables /\ Record("ClearVariables", << >>)

SpecCalls == InitCalls /\ [][NextCalls]_vars

-----------------------------------------------------------------------------
(* SpecShared: the Request values a caller holds side by side.  A Request  *)
(* is a struct of two strings and two map references; a method with a      *)
(* value receiver copies the struct, not the maps it points to.            *)

SharedEndpoints == {"https://example.test/graphql"}

SharedQueries == {"{ hello }", "mutation { bye }"}

SharedHeaderKeys == {"Content-Type", "X-Trace"}

SharedVariableKeys == {"id"}

Held == 1..Len(builders)

HeadersOf(i) == headerMaps[builders[i].Headers]

VariablesOf(i) == variableMaps[builders[i].Variables]

\* maps kept in package-level variables instead of made per Request
NewRequestSharedRefs(hm, vm) == [Headers |-> 1, Variables |-> 1]

\* make(map[...]) in NewRequest: two new objects on the heaps
NewRequestRefs(hm, vm) == [Headers |-> Len(hm) + 1, Variables |-> Len(vm) + 1]

\* the caller keeps the returned Request next to the ones it already holds
Keep(req, from, root) ==
    /\ Len(builders) < MaxBuilders
    /\ builders' = Append(builders, req)
    /\ parent' = Append(parent, from)
    /\ family' = Append(family, root)
    /\ UNCHANGED <<request, done, last, prevOp>>

SharedNewRequest(endpoint) ==
    LET refs == NewRequestRefs(headerMaps, variableMaps)
    IN  /\ Keep([Endpoint |-> endpoint, Request |-> "",
                 Headers |-> refs.Headers, Variables |-> refs.Variables],
                0, Len(builders) + 1)
        /\ headerMaps' = Append(headerMaps, EmptyMap)
        /\ variableMaps' = Append(variableMaps, EmptyMap)

\* a call that writes through the receiver's Headers reference
WriteHeaders(i, m) ==
    /\ Keep(builders[i], i, family[i])
    /\ headerMaps' = [headerMaps EXCEPT ![builders[i].Headers] = m]
    /\ UNCHANGED variableMaps

\* a call that writes through the receiver's Variables reference
WriteVariables(i, m) ==
    /\ Keep(builders[i], i, family[i])
    /\ variableMaps' = [variableMaps EXCEPT ![builders[i].Variables] = m]
    /\ UNCHANGED headerMaps

SharedAddHeader(i, key, value) == WriteHeaders(i, AddHeaderMap(HeadersOf(i), key, value))

SharedAddHeaders(i, headers) ==
    \E m \in {AddHeadersMap(HeadersOf(i), headers, order) :
                 order \in RangeOrders(DOMAIN headers)} :
        WriteHeaders(i, m)

SharedRemoveHeaders(i, keys) == WriteHeaders(i, RemoveHeadersMap(HeadersOf(i), keys))

\* request.Headers = make(map[string]string): the copy points to a new map
SharedClearHeaders(i) ==
    /\ Keep([builders[i] EXCEPT !.Headers = Len(headerMaps) + 1], i, family[i])
    /\ headerMaps' = Append(headerMaps, ClearHeadersMap(HeadersOf(i)))
    /\ UNCHANGED variableMaps

SharedAddVariable(i, key, value) ==
    WriteVariables(i, AddVariableMap(VariablesOf(i), key, value))

SharedAddVariables(i, variables) ==
    \E m \in {AddVariablesMap(VariablesOf(i), variables, order) :
                 order \in RangeOrders(DOMAIN variables)} :
        WriteVariables(i, m)

SharedRemoveVariables(i, keys) ==
    WriteVariables(i, RemoveVariablesMap(VariablesOf(i), keys))

SharedClearVariables(i) ==
    /\ Keep([builders[i] EXCEPT !.Variables = Len(variableMaps) + 1], i, family[i])
    /\ variableMaps' = Append(variableMaps, ClearVariablesMap(VariablesOf(i)))
    /\ UNCHANGED headerMaps

SharedQuery(i, query) ==
    /\ Keep([builders[i] EXCEPT !.Request = query], i, family[i])
    /\ UNCHANGED <<headerMaps, variableMaps>>

InitShared ==
    /\ request = NewRequest("https://example.test/graphql")
    /\ done = NoDo
    /\ last = [op |-> "NewRequest", arg |-> << >>, beforeH |-> EmptyMap, beforeV |-> EmptyMap]
    /\ prevOp = "other"
    /\ builders = << >>
    /\ headerMaps = << >>
    /\ variableMaps = << >>
    /\ parent = << >>
    /\ family = << >>

NextShared ==
    \/ \E endpoint \in SharedEndpoints : SharedNewRequest(endpoint)
    \/ \E i \in Held, key \in SharedHeaderKeys, value \in HeaderValues :
            SharedAddHeader(i, key, value)
    \/ \E i \in Held, headers \in MapsOver(SharedHeaderKeys, HeaderValues) :
            SharedAddHeaders(i, headers)
    \/ \E i \in Held, keys \in KeyLists(SharedHeaderKeys) : SharedRemoveHeaders(i, keys)
    \/ \E i \in Held : SharedClearHeaders(i)
    \/ \E i \in Held, key \in SharedVariableKeys, value \in VariableValues :
            SharedAddVariable(i, key, value)
    \/ \E i \in Held, variables \in MapsOver(SharedVariableKeys, VariableValues) :
            SharedAddVariables(i, variables)
    \/ \E i \in Held, keys \in KeyLists(SharedVariableKeys) : SharedRemoveVariables(i, keys)
    \/ \E i \in Held : SharedClearVariables(i)
    \/ \E i \in Held, query \in SharedQueries : SharedQuery(i, query)

SpecShared == InitShared /\ [][NextShared]_vars

-----------------------------------------------------------------------------
(* Properties *)

Did == done.stages # << >>

Sent == done.sent # << >>

Overlay(m, h) == [k \in DOMAIN m \cup DOMAIN h |-> IF k \in DOMAIN h THEN h[k] ELSE m[k]]

Unencodable(m) == \E k \in DOMAIN m : m[k].type = "chan"

Constructible(req) ==
    /\ req.Request # ""
    /\ ~Unencodable(req.Variables)
    /\ req.Endpoint # "://malformed"

\* C1: a Do on a Request whose query text is empty returns the error
\* "no query/mutation provided" and hands nothing to the transport, whatever
\* the endpoint, headers and variables are.
C1_EmptyQueryNoRequest ==
    (Did /\ request.Request = "") =>
        /\ done.res.isErr
        /\ done.res.err = "no query/mutation provided"
        /\ done.sent = << >>

C1_Witness ==
    /\ Did
    /\ request.Request = ""
    /\ request.Headers # EmptyMap
    /\ request.Variables # EmptyMap
    /\ done.res.isErr

\* C5: the body of a request Do sends is a JSON object with exactly the
\* members query and variables; query is the Request's query text and
\* variables is an object, never null or missing, with exactly the Request's
\* variables.
C5_BodyShape ==
    (Did /\ Sent) =>
        LET body == done.sent[1].body
        IN  /\ DOMAIN body = {"query", "variables"}
            /\ body["query"] = [json |-> "string", text |-> request.Request]
            /\ body["variables"].json = "object"
            /\ DOMAIN body["variables"].members = DOMAIN request.Variables
            /\ \A k \in DOMAIN request.Variables :
                    body["variables"].members[k].text = request.Variables[k].val

C5_Witness ==
    /\ Did
    /\ Sent
    /\ request.Variables = EmptyMap
    /\ request.Request = "mutation { bye }"
    /\ done.sent[1].body["variables"] = [json |-> "object", members |-> EmptyMap]

\* C6: every request Do sends has Content-Type application/json when no
\* Content-Type was configured, every configured header is on the request
\* with its configured value, and the headers sent do not depend on the order
\* in which the configured headers are visited.
C6_ContentType ==
    (Did /\ Sent) =>
        LET header == done.sent[1].header
        IN  /\ "Content-Type" \in DOMAIN header
            /\ (\A k \in DOMAIN request.Headers : CanonicalKey(k) # "Content-Type")
                    => header["Content-Type"] = "application/json"
            /\ \A k \in DOMAIN request.Headers :
                    /\ CanonicalKey(k) \in DOMAIN header
                    /\ header[CanonicalKey(k)] = request.Headers[k]
            /\ \A order \in RangeOrders(DOMAIN request.Headers) :
                    SetHeaders(request.Headers, order) = header

\* C7: a Do hands at most one request to the transport, exactly one when the
\* request can be constructed, leaves the Request as it was, and a Do that
\* follows a Do on the unchanged Request sends the same request again.
C7_DoRepeats ==
    [][(done'.stages # << >>) =>
            /\ request' = request
            /\ Len(done'.sent) <= 1
            /\ Constructible(request) => Len(done'.sent) = 1
            /\ Did => done'.sent = done.sent]_vars

\* C8: no Do returns with an open response body: a body the transport handed
\* over is closed when the read succeeds and when it fails, and after a
\* transport failure Do returns an error and holds no open body.
C8_BodyClosed ==
    Did =>
        /\ done.body \in {"none", "closed"}
        /\ "read" \in {done.stages[i] : i \in DOMAIN done.stages} => done.body = "closed"
        /\ (Sent /\ done.env.send # "response") => done.res.isErr

C8_Witness ==
    /\ Did
    /\ Sent
    /\ done.env.send = "response"
    /\ ~done.env.readOK
    /\ done.res.isErr
    /\ done.body = "closed"

\* C9: Do returns an error or a value, never both; the first stage that
\* fails ends Do with its error and no later stage runs (nothing is sent
\* after a missing query, an encoding or a construction failure); when no
\* stage fails Do returns the parsed body, whatever the status code.
C9_ErrorOrValue ==
    Did =>
        LET stages == {done.stages[i] : i \in DOMAIN done.stages}
            ok == Constructible(request)
        IN  /\ done.res.isErr => done.res.value = NoValue
            /\ ~done.res.isErr => done.res.err = ""
            /\ request.Request = "" =>
                    /\ done.res.isErr
                    /\ stages = {"check"}
                    /\ ~Sent
            /\ (request.Request # "" /\ Unencodable(request.Variables)) =>
                    /\ done.res.err = "encoding request"
                    /\ stages = {"check", "encode"}
                    /\ ~Sent
            /\ (request.Request # "" /\ ~Unencodable(request.Variables)
                    /\ request.Endpoint = "://malformed") =>
                    /\ done.res.err = "creating request"
                    /\ stages = {"check", "encode", "create"}
                    /\ ~Sent
            /\ (ok /\ done.env.send # "response") =>
                    /\ done.res.err = "sending request"
                    /\ stages = {"check", "encode", "create", "send"}
            /\ (ok /\ done.env.send = "response" /\ ~done.env.readOK) =>
                    /\ done.res.err = "reading response"
                    /\ "parse" \notin stages
            /\ (ok /\ done.env.send = "response" /\ done.env.readOK) =>
                    /\ ~done.res.isErr
                    /\ done.res.value = [raw |-> done.env.bytes, valid |-> TRUE]

C9_Witness ==
    /\ Did
    /\ ~done.res.isErr
    /\ done.env.status = 500
    /\ done.res.value.raw = ResponseBody

\* C4: AddHeaders(H1) followed by AddHeaders(H2) leaves the headers held
\* before the first call overlaid with H1 and then with H2: H2 wins every
\* collision and a key in neither keeps its value; AddVariables likewise.
C4_MergeTwice ==
    [][/\ (last.op = "AddHeaders" /\ last'.op = "AddHeaders") =>
            request'.Headers = Overlay(Overlay(last.beforeH, last.arg), last'.arg)
       /\ (last.op = "AddVariables" /\ last'.op = "AddVariables") =>
            request'.Variables = Overlay(Overlay(last.beforeV, last.arg), last'.arg)]_vars

C4_Witness ==
    /\ prevOp = "AddHeaders"
    /\ last.op = "AddHeaders"
    /\ \E k \in DOMAIN last.arg \cap DOMAIN last.beforeH :
            /\ last.beforeH[k] # last.arg[k]
            /\ request.Headers[k] = last.arg[k]
    /\ \E k \in DOMAIN last.beforeH \ DOMAIN last.arg :
            request.Headers[k] = last.beforeH[k]

\* C10: ClearHeaders followed by AddHeader(k, v) leaves exactly the header
\* k: v, whatever was held before; ClearVariables followed by
\* AddVariable(k, v) leaves exactly the variable k: v.
C10_ClearThenAdd ==
    [][/\ (last.op = "ClearHeaders" /\ last'.op = "AddHeader") =>
            request'.Headers = (last'.arg[1] :> last'.arg[2])
       /\ (last.op = "ClearVariables" /\ last'.op = "AddVariable") =>
            request'.Variables = (last'.arg[1] :> last'.arg[2])]_vars

C10_Witness ==
    /\ prevOp = "ClearHeaders"
    /\ last.op = "AddHeader"
    /\ request.Headers = (last.arg[1] :> last.arg[2])
    /\ request.Variables # EmptyMap

\* a configuration call was made on builders[a] in this step
CalledOn(a) ==
    /\ Len(builders') = Len(builders) + 1
    /\ parent'[Len(builders')] = a

SameView(i) ==
    /\ headerMaps'[builders[i].Headers] = headerMaps[builders[i].Headers]
    /\ variableMaps'[builders[i].Variables] = variableMaps[builders[i].Variables]

\* C2: a configuration call on a Request changes the headers and variables
\* seen through no other Request the caller holds, except one it was
\* directly derived from or one directly derived from it.
C2_OwnMaps ==
    [][\A a \in Held : CalledOn(a) =>
            \A i \in Held : (i # a /\ parent[a] # i /\ parent[i] # a) => SameView(i)]_vars

\* C3: a configuration call on a Request descending from one NewRequest
\* changes the headers and variables of no Request descending from another
\* NewRequest.
C3_FamiliesApart ==
    [][\A a \in Held : CalledOn(a) =>
            \A i \in Held : family[i] # family[a] => SameView(i)]_vars

C3_Witness ==
    \E i \in Held, j \in Held :
        /\ j < i
        /\ family[i] # family[j]
        /\ parent[i] # 0
        /\ HeadersOf(i) # EmptyMap
        /\ HeadersOf(j) # EmptyMap
        /\ HeadersOf(i) # HeadersOf(j)

====
